---- MODULE Spec2Model ----
(***************************************************************************)
(* A model of keyman (src/main.go): the SSH key files under ~/.ssh, the    *)
(* line-oriented config file ~/.ssh/config, and the commands that read and *)
(* rewrite them (map, unmap, delete, generate, unused, audit).             *)
(*                                                                         *)
(* Strings are modelled structurally.  A file name is a stem followed by a *)
(* number of ".pub" suffixes; a path is its kind (absolute, "~"-prefixed,  *)
(* relative) and its sequence of segments; the config file is its sequence *)
(* of lines as strings.Split(content, "\n") yields them, each line being   *)
(* what strings.TrimSpace and the two strings.HasPrefix tests make of it.  *)
(***************************************************************************)
EXTENDS Integers, Sequences, FiniteSets, TLC

VARIABLES
    configFile,   \* the lines of ~/.ssh/config
    files,        \* the key files that exist (absolute paths)
    last,         \* the last command run: its arguments, the state before, the outcome
    procs,        \* two concurrent invocations: position, command, parsed config, image
    events,       \* the order of the concurrent invocations' system calls
    calc          \* inputs and results of the read-only computations

vars == <<configFile, files, last, procs, events, calc>>

----------------------------------------------------------------------------
(* Bounds of the model *)

\* the longest key list of an input config
MaxKeys == 2
\* map is not run once the config file holds this many IdentityFile lines
MaxEntries == 3

----------------------------------------------------------------------------
(* File names and paths *)

Nm(s) == [stem |-> s, pub |-> 0]

\* strings.HasSuffix(name, keyFileExt)
HasPubSuffix(n) == n.pub > 0

\* strings.TrimSuffix(name, ".pub")
TrimPubSuffix(n) == IF n.pub > 0 THEN [n EXCEPT !.pub = @ - 1] ELSE n

AbsPath(segs) == [kind |-> "abs", segs |-> segs]
RelPath(segs) == [kind |-> "rel", segs |-> segs]
TildePath(segs) == [kind |-> "tilde", segs |-> segs]
NoPath == [kind |-> "none", segs |-> <<>>]

\* usr.HomeDir and the working directory of the process
HomeDir == AbsPath(<<Nm("home"), Nm("u")>>)
Cwd == AbsPath(<<Nm("work")>>)

\* filepath.IsAbs
IsAbs(p) == p.kind = "abs"

\* the segments of a path read as a plain string: "~/x" is the segments "~", "x"
RawSegs(p) == IF p.kind = "tilde" THEN <<Nm("~")>> \o p.segs ELSE p.segs

\* filepath.Join(dir, elem) for an absolute dir
Join(dir, p) == AbsPath(dir.segs \o RawSegs(p))

\* filepath.Base
Base(p) ==
    LET s == RawSegs(p) IN
    IF Len(s) > 0 THEN s[Len(s)]
    ELSE IF p.kind = "abs" THEN Nm("/") ELSE Nm(".")

\* path + ".pub"
AddPub(p) ==
    [p EXCEPT !.segs = [@ EXCEPT ![Len(@)] = [@ EXCEPT !.pub = @ + 1]]]

getSSHPath == Join(HomeDir, RelPath(<<Nm(".ssh")>>))

expandPath(p) ==
    IF p.kind = "tilde" THEN AbsPath(HomeDir.segs \o p.segs)
    ELSE IF p.kind = "rel" THEN Join(Cwd, p)
    ELSE p

getFullKeyPath(key) == IF IsAbs(key) THEN key ELSE Join(getSSHPath, key)

----------------------------------------------------------------------------
(* The in-memory config: a Go map from host name to a list of key paths *)

EmptyConfig == [h \in {} |-> <<>>]

\* config[host], the zero value (nil) for a missing key
Lookup(config, h) == IF h \in DOMAIN config THEN config[h] ELSE <<>>

\* config[host] = v
Store(config, h, v) == [x \in DOMAIN config \cup {h} |-> IF x = h THEN v ELSE config[x]]

\* append(keyPaths[:i], keyPaths[i+1:]...)
RemoveAt(s, i) == SubSeq(s, 1, i - 1) \o SubSeq(s, i + 1, Len(s))

Range(s) == {s[i] : i \in DOMAIN s}

\* the index of the first entry equal to key, 0 when there is none
FirstIndex(s, key) ==
    IF \E i \in DOMAIN s : s[i] = key
    THEN CHOOSE i \in DOMAIN s : s[i] = key /\ \A j \in 1..(i - 1) : s[j] # key
    ELSE 0

\* host names in ascending byte order, as sort.Strings orders them
HostOrder == <<"", "bar", "baz", "foo">>
HostRank(h) == CHOOSE i \in DOMAIN HostOrder : HostOrder[i] = h

RECURSIVE SortStrings(_)
SortStrings(S) ==
    IF S = {} THEN <<>>
    ELSE LET m == CHOOSE x \in S : \A y \in S : HostRank(x) <= HostRank(y)
         IN <<m>> \o SortStrings(S \ {m})

\* every order in which a range over a Go map may visit the keys
RECURSIVE MapOrders(_)
MapOrders(S) ==
    IF S = {} THEN {<<>>}
    ELSE UNION {{<<x>> \o r : r \in MapOrders(S \ {x})} : x \in S}

----------------------------------------------------------------------------
(* The config file *)

HostLine(h) == [t |-> "Host", host |-> h, path |-> NoPath]
IdentityLine(p) == [t |-> "IdentityFile", host |-> "", path |-> p]
BlankLine == [t |-> "", host |-> "", path |-> NoPath]

RECURSIVE Flatten(_)
Flatten(ss) == IF ss = <<>> THEN <<>> ELSE Head(ss) \o Flatten(Tail(ss))

writeConfig(config) ==
    LET hosts == SortStrings(DOMAIN config)
        block(h) == <<HostLine(h)>>
                    \o [i \in DOMAIN config[h] |-> IdentityLine(config[h][i])]
                    \o <<BlankLine>>
    IN Flatten([i \in DOMAIN hosts |-> block(hosts[i])])

\* The values getLastHost may return: the host the range over the map visits
\* last, which is any key of the map, and "" for an empty map.
getLastHost(config) == IF DOMAIN config = {} THEN {""} ELSE DOMAIN config

\* The configs parseConfig may return for the lines from i on.  "Host " with an
\* empty name is "Host" once trimmed and is no Host line.
RECURSIVE parseFrom(_, _, _)
parseFrom(lines, i, config) ==
    IF i > Len(lines) THEN {config}
    ELSE LET line == lines[i] IN
         IF line.t = "Host" /\ line.host # ""
         THEN parseFrom(lines, i + 1, Store(config, line.host, <<>>))
         ELSE IF line.t = "IdentityFile"
         THEN UNION {parseFrom(lines, i + 1,
                         Store(config, h, Lookup(config, h) \o <<expandPath(line.path)>>))
                     : h \in getLastHost(config)}
         ELSE parseFrom(lines, i + 1, config)

parseConfig(lines) == parseFrom(lines, 1, EmptyConfig)

----------------------------------------------------------------------------
(* The arguments the commands are run with, and the files they start from *)

KeyA == Nm("id_a")
KeyB == Nm("id_b")

PathA == Join(getSSHPath, RelPath(<<KeyA>>))        \* /home/u/.ssh/id_a
PathB == AbsPath(<<Nm("abs"), KeyB>>)               \* /abs/id_b

KeyArgs == {RelPath(<<KeyA>>), TildePath(<<Nm(".ssh"), KeyA>>), PathA, PathB}
HostArgs == {"bar", "foo"}

KeyFiles == {PathA, AddPub(PathA), PathB, AddPub(PathB)}

\* Host foo / IdentityFile ~/.ssh/id_a / (blank) / Host bar / IdentityFile /abs/id_b
ExampleFile ==
    <<HostLine("foo"), IdentityLine(TildePath(<<Nm(".ssh"), KeyA>>)), BlankLine,
      HostLine("bar"), IdentityLine(PathB), BlankLine>>

StartFiles ==
    { <<>>,
      ExampleFile,
      <<HostLine("bar"), IdentityLine(PathA), BlankLine>>,
      <<HostLine("bar"), IdentityLine(PathB), IdentityLine(PathB), BlankLine>> }

NoCommand ==
    [op |-> "none", key |-> NoPath, host |-> "", file |-> <<>>, fs |-> {},
     status |-> ""]

Ran(op, key, host, status) ==
    [op |-> op, key |-> key, host |-> host, file |-> configFile, fs |-> files,
     status |-> status]

IdleProcs == [p \in {1, 2} |-> [pc |-> "idle"]]
NoCalc == [phase |-> "none"]

EntryCount(lines) == Cardinality({i \in DOMAIN lines : lines[i].t = "IdentityFile"})

----------------------------------------------------------------------------
(* The commands, one invocation after another *)

\* map <key> <host>
mapKey(key, host) ==
    /\ EntryCount(configFile) < MaxEntries
    /\ \E config \in parseConfig(configFile) :
          IF Len(Lookup(config, host)) >= 1
          THEN /\ configFile' = configFile
               /\ last' = Ran("map", key, host, "refused")
          ELSE /\ configFile' = writeConfig(Store(config, host, Lookup(config, host) \o <<key>>))
               /\ last' = Ran("map", key, host, "ok")
    /\ UNCHANGED <<files, procs, events, calc>>

\* the config unmapKey writes back
unmapped(config, key, host) ==
    LET keyPaths == Lookup(config, host)
        i == FirstIndex(keyPaths, key)
    IN IF i > 0 THEN Store(config, host, RemoveAt(keyPaths, i)) ELSE config

\* unmap <key> <host>
unmapKey(key, host) ==
    /\ \E config \in parseConfig(configFile) :
          configFile' = writeConfig(unmapped(config, key, host))
    /\ last' = Ran("unmap", key, host, "ok")
    /\ UNCHANGED <<files, procs, events, calc>>

\* the config deleteKey writes back: per host the first entry equal to the
\* key's full path goes, and the host with it when no entry is left
deleted(config, fullKeyPath) ==
    LET hit(h) == FirstIndex(config[h], fullKeyPath)
        kept == {h \in DOMAIN config : ~(hit(h) > 0 /\ Len(config[h]) = 1)}
    IN [h \in kept |-> IF hit(h) > 0 THEN RemoveAt(config[h], hit(h)) ELSE config[h]]

\* a variant that treats the removal of the .pub file as best effort
deleteKeyPubBestEffort(key) ==
    LET fullKeyPath == getFullKeyPath(key)
        pubFilePath == AddPub(fullKeyPath)
    IN /\ IF fullKeyPath \notin files
          THEN /\ UNCHANGED <<files, configFile>>
               /\ last' = Ran("delete", key, "", "fatal")
          ELSE /\ files' = files \ {fullKeyPath, pubFilePath}
               /\ \E config \in parseConfig(configFile) :
                     configFile' = writeConfig(deleted(config, fullKeyPath))
               /\ last' = Ran("delete", key, "", "ok")
       /\ UNCHANGED <<procs, events, calc>>

\* delete <key>: log.Fatal ends the command at the first os.Remove that fails
deleteKey(key) ==
    LET fullKeyPath == getFullKeyPath(key)
        pubFilePath == AddPub(fullKeyPath)
    IN /\ IF fullKeyPath \notin files
          THEN /\ UNCHANGED <<files, configFile>>
               /\ last' = Ran("delete", key, "", "fatal")
          ELSE IF pubFilePath \notin files
          THEN /\ files' = files \ {fullKeyPath}
               /\ UNCHANGED configFile
               /\ last' = Ran("delete", key, "", "fatal")
          ELSE /\ files' = files \ {fullKeyPath, pubFilePath}
               /\ \E config \in parseConfig(configFile) :
                     configFile' = writeConfig(deleted(config, fullKeyPath))
               /\ last' = Ran("delete", key, "", "ok")
       /\ UNCHANGED <<procs, events, calc>>

\* generate: ssh-keygen -f <ssh dir>/<name> writes the key and its .pub file
generateKey(keyName) ==
    LET keyPath == Join(getSSHPath, RelPath(<<keyName>>))
    IN /\ keyPath \notin files
       /\ files' = files \cup {keyPath, AddPub(keyPath)}
       /\ last' = Ran("generate", keyPath, "", "ok")
       /\ UNCHANGED <<configFile, procs, events, calc>>

Init ==
    /\ configFile \in StartFiles
    /\ files \in SUBSET KeyFiles
    /\ last = NoCommand
    /\ procs = IdleProcs
    /\ events = <<>>
    /\ calc = NoCalc

MapStep == \E key \in KeyArgs, host \in HostArgs : mapKey(key, host)
UnmapStep == \E key \in KeyArgs, host \in HostArgs : unmapKey(key, host)
DeleteStep == \E key \in KeyArgs : deleteKey(key)
GenerateStep == generateKey(KeyA)

Next == MapStep \/ UnmapStep \/ DeleteStep \/ GenerateStep

Spec == Init /\ [][Next]_vars

----------------------------------------------------------------------------
(* What a config file says: every IdentityFile line belongs to the host of *)
(* the nearest Host line above it ("" when there is none).  This is the   *)
(* reading the claims about the file are stated in.                        *)

RECURSIVE Listed(_, _, _, _)
Listed(lines, i, cur, m) ==
    IF i > Len(lines) THEN m
    ELSE LET line == lines[i] IN
         IF line.t = "Host" /\ line.host # ""
         THEN Listed(lines, i + 1, line.host, Store(m, line.host, Lookup(m, line.host)))
         ELSE IF line.t = "IdentityFile"
         THEN Listed(lines, i + 1, cur, Store(m, cur, Lookup(m, cur) \o <<line.path>>))
         ELSE Listed(lines, i + 1, cur, m)

\* host -> the key paths the file lists for it, as written
FileMapping(lines) == Listed(lines, 1, "", EmptyConfig)

\* host -> the key paths the file lists for it, expanded
FileMappingExpanded(lines) ==
    LET m == FileMapping(lines)
    IN [h \in DOMAIN m |-> [i \in DOMAIN m[h] |-> expandPath(m[h][i])]]

AtMostOnePerHost(lines) ==
    \A h \in DOMAIN FileMapping(lines) : Len(FileMapping(lines)[h]) <= 1

\* s without its entries equal to x
Without(s, x) == SelectSeq(s, LAMBDA e : e # x)

----------------------------------------------------------------------------
(* Claims about the commands run one after another (Spec) *)

\* C2: map(key2, host) run while the config file lists at least one key for
\* host does not rewrite the file, leaves host's key list as it is and reports
\* the conflict; so map(k1, h) on a file listing no key for h, followed by
\* map(k2, h) with k2 # k1, leaves h mapped to exactly [k1].
C2_MapRefuses ==
    [][ last'.op = "map" =>
          /\ Len(Lookup(FileMapping(configFile), last'.host)) >= 1 =>
                /\ last'.status = "refused"
                /\ configFile' = configFile
          /\ ( /\ last.op = "map"
               /\ last.host = last'.host
               /\ last.key # last'.key
               /\ Len(Lookup(FileMapping(last.file), last.host)) = 0 ) =>
                FileMapping(configFile')[last.host] = <<last.key>>
      ]_vars

\* C3: a command run on a config file in which every host has at most one
\* IdentityFile entry leaves a config file in which every host has at most
\* one IdentityFile entry.
C3_AtMostOneKeyPerHost ==
    [][AtMostOnePerHost(configFile) => AtMostOnePerHost(configFile')]_vars

\* C4: after a successful delete(key), with P the key's full path, neither P
\* nor P.pub exists, no host's key list in the rewritten config contains P,
\* every host whose list the removal emptied is gone, and every other host
\* keeps its key list.
C4_DeleteRemovesKey ==
    (last.op = "delete" /\ last.status = "ok") =>
        LET P == getFullKeyPath(last.key)
            before == FileMappingExpanded(last.file)
            after == FileMappingExpanded(configFile)
        IN /\ P \notin files
           /\ AddPub(P) \notin files
           /\ \A h \in DOMAIN after : P \notin Range(after[h])
           /\ DOMAIN after \subseteq DOMAIN before
           /\ \A h \in DOMAIN before :
                 IF P \in Range(before[h])
                 THEN IF Without(before[h], P) = <<>>
                      THEN h \notin DOMAIN after
                      ELSE h \in DOMAIN after /\ after[h] = Without(before[h], P)
                 ELSE h \in DOMAIN after /\ after[h] = before[h]

\* C8: unmap(key, host) removes the first entry of host's key list equal to
\* key and nothing else; with no such entry the file's host -> key-list
\* mapping is the same before and after.
C8_UnmapFrame ==
    last.op = "unmap" =>
        LET before == FileMappingExpanded(last.file)
            after == FileMappingExpanded(configFile)
            i == FirstIndex(Lookup(before, last.host), last.key)
        IN after = IF i > 0
                   THEN Store(before, last.host, RemoveAt(before[last.host], i))
                   ELSE before

\* C9: delete removes the private key file, then the .pub file, then rewrites
\* the config, and stops at the first step that fails: with no private key
\* file, the .pub file and the config file are untouched; with the private key
\* file but no .pub file, the private key file is removed, the command fails
\* and the config file is untouched.
C9_DeleteAbortsAtFirstFailure ==
    last.op = "delete" =>
        LET P == getFullKeyPath(last.key)
        IN /\ P \notin last.fs =>
                 /\ last.status = "fatal"
                 /\ files = last.fs
                 /\ configFile = last.file
           /\ (P \in last.fs /\ AddPub(P) \notin last.fs) =>
                 /\ last.status = "fatal"
                 /\ files = last.fs \ {P}
                 /\ configFile = last.file
           /\ (P \in last.fs /\ AddPub(P) \in last.fs) =>
                 files = last.fs \ {P, AddPub(P)}

\* a delete that removed the private key file, failed on the missing .pub file
\* and left a config file that still lists the key
C9_Witness ==
    /\ last.op = "delete"
    /\ getFullKeyPath(last.key) \in last.fs
    /\ AddPub(getFullKeyPath(last.key)) \notin last.fs
    /\ getFullKeyPath(last.key) \notin files
    /\ \E h \in DOMAIN FileMappingExpanded(configFile) :
          getFullKeyPath(last.key) \in Range(FileMappingExpanded(configFile)[h])

----------------------------------------------------------------------------
(* The key inventory and the usage analysis *)

\* getKeys: the regular files of the SSH directory whose name ends in ".pub",
\* in the order os.ReadDir lists them (the modification time and the comment
\* of a key play no part in the analysis and are left out)
getKeys(dir) ==
    LET pubs == SelectSeq(dir, LAMBDA f : ~f.isDir /\ HasPubSuffix(f.name))
    IN [i \in DOMAIN pubs |->
           [name |-> TrimPubSuffix(pubs[i].name),
            path |-> Join(getSSHPath, RelPath(<<pubs[i].name>>))]]

\* the keys the unused command prints
listUnusedKeys(keys, config) ==
    LET usedKeys == UNION {{Base(config[h][i]) : i \in DOMAIN config[h]} : h \in DOMAIN config}
    IN SelectSeq(keys, LAMBDA key : key.name \notin usedKeys)

\* a variant that compares the public key file's full name
isKeyUsedNoTrim(key, config) ==
    \E h \in DOMAIN config : \E i \in DOMAIN config[h] :
        Base(key.path) = Base(config[h][i])

isKeyUsed(key, config) ==
    \E h \in DOMAIN config : \E i \in DOMAIN config[h] :
        TrimPubSuffix(Base(key.path)) = Base(config[h][i])

\* the keys the Unused Keys section of audit prints
auditUnusedKeys(keys, config) == SelectSeq(keys, LAMBDA key : ~isKeyUsed(key, config))

\* every key path of the config
KeyPathsOf(config) == UNION {Range(config[h]) : h \in DOMAIN config}

\* The maps findMultipleMappings may return, one per order in which the range
\* over the config visits the hosts: a host is appended to a key path's list
\* once for every entry of the host that equals the path.
findMultipleMappings(config) ==
    LET mentions(h, k) == [j \in DOMAIN SelectSeq(config[h], LAMBDA e : e = k) |-> h]
        keyMappings(order) ==
            [k \in KeyPathsOf(config) |->
                Flatten([i \in DOMAIN order |-> mentions(order[i], k)])]
        multiple(km) == [k \in {k \in DOMAIN km : Len(km[k]) > 1} |-> km[k]]
    IN {multiple(keyMappings(order)) : order \in MapOrders(DOMAIN config)}

----------------------------------------------------------------------------
(* The inputs of the config store and of the analysis *)

RECURSIVE SeqsUpTo(_, _)
SeqsUpTo(S, n) ==
    IF n = 0 THEN {<<>>}
    ELSE LET shorter == SeqsUpTo(S, n - 1)
         IN shorter \cup {Append(q, x) : q \in shorter, x \in S}

ConfigPaths == {PathA, PathB, AddPub(PathB)}

\* the configs over the hosts bar and foo with key lists of at most MaxKeys paths
Configs ==
    UNION {[D -> SeqsUpTo(ConfigPaths, MaxKeys)] : D \in SUBSET HostArgs}

\* the SSH directory as os.ReadDir lists it, sorted by file name
DirEntries ==
    <<[name |-> KeyA, isDir |-> FALSE],
      [name |-> [stem |-> "id_a", pub |-> 1], isDir |-> FALSE],
      [name |-> [stem |-> "id_b", pub |-> 1], isDir |-> FALSE],
      [name |-> [stem |-> "old", pub |-> 1], isDir |-> TRUE]>>

RECURSIVE SubSeqs(_)
SubSeqs(q) ==
    IF q = <<>> THEN {<<>>}
    ELSE LET rest == SubSeqs(Tail(q))
         IN rest \cup {<<Head(q)>> \o r : r \in rest}

Dirs == SubSeqs(DirEntries)

InputFiles ==
    StartFiles \cup
    { <<IdentityLine(PathA), HostLine("bar"), IdentityLine(PathB)>>,
      <<HostLine("bar"), IdentityLine(PathA), BlankLine,
        HostLine("baz"), IdentityLine(RelPath(<<KeyA>>)), BlankLine,
        HostLine("foo"), IdentityLine(PathB), BlankLine>> }

InitAnalysis ==
    /\ configFile = <<>>
    /\ files = {}
    /\ last = NoCommand
    /\ procs = IdleProcs
    /\ events = <<>>
    /\ \E cfg \in Configs, dir \in Dirs, file \in InputFiles :
          calc = [phase |-> "input", cfg |-> cfg, dir |-> dir, file |-> file,
                  out |-> <<>>]

Computed(phase, out) ==
    /\ calc' = [calc EXCEPT !.phase = phase, !.out = out]
    /\ UNCHANGED <<configFile, files, last, procs, events>>

\* the config is written and the written file is parsed
RoundTrip ==
    /\ calc.phase = "input"
    /\ \E config \in parseConfig(writeConfig(calc.cfg)) : Computed("roundtrip", config)

\* the input file is parsed
Parse ==
    /\ calc.phase = "input"
    /\ \E config \in parseConfig(calc.file) : Computed("parse", config)

\* audit's Multiple Mappings section
MultipleMappings ==
    /\ calc.phase = "input"
    /\ \E mm \in findMultipleMappings(calc.cfg) : Computed("multiple", mm)

\* the unused command and audit's Unused Keys section, on the same inventory and config
Unused ==
    /\ calc.phase = "input"
    /\ Computed("unused",
                [unused |-> listUnusedKeys(getKeys(calc.dir), calc.cfg),
                 audit |-> auditUnusedKeys(getKeys(calc.dir), calc.cfg)])

NextAnalysis == RoundTrip \/ Parse \/ MultipleMappings \/ Unused

SpecAnalysis == InitAnalysis /\ [][NextAnalysis]_vars

----------------------------------------------------------------------------
(* Claims about the config store and the analysis (SpecAnalysis) *)

\* C1: parsing the file writeConfig produces for a config yields the same
\* hosts and, for each host, the same key paths in the same order.
C1_RoundTrip ==
    calc.phase = "roundtrip" =>
        /\ DOMAIN calc.out = DOMAIN calc.cfg
        /\ \A h \in DOMAIN calc.cfg : calc.out[h] = calc.cfg[h]

\* C5: findMultipleMappings reports a key path exactly when more than one host
\* references it, and the hosts it reports for the path are the hosts that
\* reference it (order aside).
C5_MultipleMappings ==
    calc.phase = "multiple" =>
        LET refs(k) == {h \in DOMAIN calc.cfg : k \in Range(calc.cfg[h])}
        IN /\ DOMAIN calc.out = {k \in KeyPathsOf(calc.cfg) : Cardinality(refs(k)) > 1}
           /\ \A k \in DOMAIN calc.out : Range(calc.out[k]) = refs(k)

\* C6: the unused command and the Unused Keys section of audit list exactly
\* the keys whose base name (the public key file's name less ".pub") is the
\* basename of no key path of any host, and so select the same keys.
C6_UnusedKeys ==
    calc.phase = "unused" =>
        LET keys == getKeys(calc.dir)
            bases == {Base(k) : k \in KeyPathsOf(calc.cfg)}
            isUnused(key) == TrimPubSuffix(Base(key.path)) \notin bases
        IN /\ calc.out.unused = SelectSeq(keys, isUnused)
           /\ calc.out.audit = SelectSeq(keys, isUnused)
           /\ calc.out.unused = calc.out.audit

\* keys a and b in the inventory, a config that references .../id_a only:
\* both computations report id_b alone
C6_Witness ==
    /\ calc.phase = "unused"
    /\ Len(getKeys(calc.dir)) = 2
    /\ KeyPathsOf(calc.cfg) = {PathA}
    /\ Len(calc.out.unused) = 1
    /\ calc.out.unused[1].name = KeyB
    /\ calc.out.audit = calc.out.unused

\* C7: parseConfig appends the expanded path of each IdentityFile line to the
\* key list of the host named by the nearest preceding Host line, in line
\* order, and to no other host.
C7_ParseAttachesToNearestHost ==
    calc.phase = "parse" => calc.out = FileMappingExpanded(calc.file)

----------------------------------------------------------------------------
(* Two invocations at once.  Each reads and parses the config file, and     *)
(* then, unless map refuses, hands its image to os.WriteFile, which opens   *)
(* the file truncating it and then writes the image from offset 0: two      *)
(* system calls, with no lock held across them.  A write of n lines         *)
(* replaces the first n lines of the file and leaves what lies beyond.      *)

Procs == {1, 2}

RaceCommands ==
    [op : {"map", "unmap"}, key : {PathA, PathB}, host : HostArgs]

RaceStartFiles ==
    { <<>>,
      <<HostLine("bar"), IdentityLine(PathB), BlankLine>>,
      <<HostLine("baz"), IdentityLine(PathA), BlankLine>> }

\* the config a command writes back, given the config it parsed
updated(cmd, config) ==
    IF cmd.op = "map"
    THEN Store(config, cmd.host, Lookup(config, cmd.host) \o <<cmd.key>>)
    ELSE unmapped(config, cmd.key, cmd.host)

\* the file after data is written at offset 0
Overwrite(content, data) == data \o SubSeq(content, Len(data) + 1, Len(content))

Happened(kind, p) == events' = Append(events, <<kind, p>>)

\* parseConfig, and mapKey's test of the host's key list
readConfig(p) ==
    /\ procs[p].pc = "start"
    /\ \E config \in parseConfig(configFile) :
          IF procs[p].cmd.op = "map" /\ Len(Lookup(config, procs[p].cmd.host)) >= 1
          THEN procs' = [procs EXCEPT ![p].pc = "done", ![p].status = "refused"]
          ELSE procs' = [procs EXCEPT ![p].pc = "write",
                                      ![p].img = writeConfig(updated(procs[p].cmd, config))]
    /\ Happened("read", p)
    /\ UNCHANGED <<configFile, files, last, calc>>

\* a variant that opens the file without truncating it
openFileNoTruncate(p) ==
    /\ procs[p].pc = "write"
    /\ procs' = [procs EXCEPT ![p].pc = "opened"]
    /\ Happened("open", p)
    /\ UNCHANGED <<configFile, files, last, calc>>

\* os.WriteFile: OpenFile(path, O_WRONLY|O_CREATE|O_TRUNC, 0644)
openFile(p) ==
    /\ procs[p].pc = "write"
    /\ configFile' = <<>>
    /\ procs' = [procs EXCEPT ![p].pc = "opened"]
    /\ Happened("open", p)
    /\ UNCHANGED <<files, last, calc>>

\* os.WriteFile: f.Write(data), and the command reports success
writeFile(p) ==
    /\ procs[p].pc = "opened"
    /\ configFile' = Overwrite(configFile, procs[p].img)
    /\ procs' = [procs EXCEPT ![p].pc = "done", ![p].status = "ok"]
    /\ Happened("write", p)
    /\ UNCHANGED <<files, last, calc>>

InitRace ==
    /\ configFile \in RaceStartFiles
    /\ files = {}
    /\ last = NoCommand
    /\ \E c1, c2 \in RaceCommands :
          procs = [p \in Procs |->
                     [pc |-> "start", cmd |-> IF p = 1 THEN c1 ELSE c2,
                      img |-> <<>>, status |-> ""]]
    /\ events = <<>>
    /\ calc = NoCalc

ReadStep == \E p \in Procs : readConfig(p)
OpenStep == \E p \in Procs : openFile(p)
WriteStep == \E p \in Procs : writeFile(p)

NextRace == ReadStep \/ OpenStep \/ WriteStep

SpecRace == InitRace /\ [][NextRace]_vars

----------------------------------------------------------------------------
(* Claims about two invocations at once (SpecRace) *)

At(kind, p) == CHOOSE i \in DOMAIN events : events[i] = <<kind, p>>

BothWrote == \A p \in Procs : procs[p].pc = "done" /\ procs[p].status = "ok"

\* both invocations read the file before either one opens it for writing
BothReadFirst == \A p, q \in Procs : At("read", p) < At("open", q)

LaterWriter == CHOOSE p \in Procs : \A q \in Procs : At("write", q) <= At("write", p)
EarlierWriter == CHOOSE p \in Procs : p # LaterWriter

\* the later writer opened the file before the earlier writer wrote its image
WritesOverlap == At("open", LaterWriter) < At("write", EarlierWriter)

====
